---------------------------- MODULE Spec2Model ----------------------------
(***************************************************************************)
(* Supplier-recommendation engine of the procurement backend:              *)
(* RecomendadorFornecedores (backend/app/services/recomendador.py), its    *)
(* persisted model file and the process-wide instance that the API layer   *)
(* keeps (backend/app/api/api_v1/endpoints/recomendacoes.py).              *)
(*                                                                         *)
(* Texts are modelled after preprocessar_texto as the set of terms they    *)
(* contain.  The two external embedders are modelled by what the code      *)
(* relies on: SentenceTransformer.encode maps a text to a dense vector of  *)
(* a fixed dimension; TfidfVectorizer is fitted on a corpus (min_df=2,     *)
(* max_df=0.85), keeps the fitted vocabulary, and maps a text to a vector  *)
(* over that vocabulary (term weights abstracted to 0/1).  Cosine          *)
(* similarity times 100 is kept as an integer percentage.                  *)
(***************************************************************************)
EXTENDS Integers, Sequences, FiniteSets, Bags, TLC

VARIABLES
    recomendador,  \* the process-wide RecomendadorFornecedores instance
    disco,         \* content of the model file "modelo_recomendador.joblib"
    relogio,       \* datetime.now(), advanced by every training call
    tentativas,    \* calls of _inicializar_sentence_transformer in this process
    ultimaOp,      \* the last call made on the instance, with its arguments
    resultado,     \* what that call gave back to its caller
    treino,        \* a treinar call in progress on another thread
    leitor,        \* a recomendar call in progress on another thread
    banco,         \* the committed rows of the database
    resposta,      \* the answer to the last HTTP request or worker task
    pedidos        \* the create_proposta requests in progress, one per worker thread

vars == <<recomendador, disco, relogio, tentativas, ultimaOp, resultado, treino, leitor,
          banco, resposta, pedidos>>

--------------------------------------------------------------------------
(* Bounds of the model *)

\* longest supplier list handed to treinar
MaxForn == 3
\* largest top_n asked of recomendar
MaxTopN == 3
\* number of training calls in one behaviour (the clock stops there)
MaxRelogio == 2
\* rows of the table avaliacoes_fornecedores
MaxAvaliacoes == 2
\* largest monetary value and largest delivery time given to the scorer
MaxValor == 6
MaxPrazo == 31
\* longest text given to preprocessar_texto
MaxTexto == 4

--------------------------------------------------------------------------
(* Values *)

None == <<>>
Some(x) == <<x>>
IsNone(o) == o = <<>>
Val(o) == o[1]

Min(a, b) == IF a <= b THEN a ELSE b
Max(a, b) == IF a >= b THEN a ELSE b

\* the terms a preprocessed text may contain
Termos == {1, 2, 3}

\* supplier profiles, each with the terms of its preprocessed combined text
Fornecedores ==
    { [id |-> 1, termos |-> {1, 2}],
      [id |-> 2, termos |-> {2, 3}],
      [id |-> 3, termos |-> {3}] }

\* the active suppliers in the order the database returns them; one supplier
\* appears twice so that lists with equal texts occur
Catalogo ==
    << [id |-> 1, termos |-> {1, 2}],
       [id |-> 2, termos |-> {2, 3}],
       [id |-> 3, termos |-> {3}],
       [id |-> 2, termos |-> {2, 3}],
       [id |-> 1, termos |-> {1, 2}] >>

\* bid queries; the last one preprocesses to the empty text
Licitacoes ==
    { [id |-> 1, termos |-> {1}],
      [id |-> 2, termos |-> {2, 3}],
      [id |-> 3, termos |-> {}] }

\* the lists handed to treinar: the empty list and every run of at most
\* MaxForn consecutive catalogue entries
ListasTreino ==
    {<<>>} \cup
    { SubSeq(Catalogo, w[1], w[1] + w[2] - 1) :
        w \in { x \in (1..Len(Catalogo)) \X (1..MaxForn) : x[1] + x[2] - 1 <= Len(Catalogo) } }

TopNs == 1..MaxTopN

\* treinar, lines 108-117: one preprocessed text per supplier, in input order
TextosDe(fornecedores) == [i \in 1..Len(fornecedores) |-> fornecedores[i].termos]

--------------------------------------------------------------------------
(* The two embedders and cosine similarity *)

\* dimension of the dense sentence embedding; larger than any fitted vocabulary
DimSemantica == Cardinality(Termos) + 1

\* weight of term t on component d of the sentence embedding
PesoSemantico(t, d) ==
    CASE t = 1 /\ d = 1 ->  2
      [] t = 1 /\ d = 2 ->  1
      [] t = 2 /\ d = 1 ->  1
      [] t = 2 /\ d = 2 ->  2
      [] t = 3 /\ d = 1 -> -2
      [] t = 3 /\ d = 3 ->  1
      [] OTHER -> 0

RECURSIVE SomaPesos(_, _)
SomaPesos(ts, d) ==
    IF ts = {} THEN 0
    ELSE LET t == CHOOSE x \in ts : TRUE
         IN PesoSemantico(t, d) + SomaPesos(ts \ {t}, d)

\* SentenceTransformer.encode of one text: a dense vector, never the zero vector
Encode(texto) ==
    [d \in 1..DimSemantica |-> IF d = DimSemantica THEN 1 ELSE SomaPesos(texto, d)]

\* document frequency of term t in a list of texts
Df(t, textos) == Cardinality({i \in 1..Len(textos) : t \in textos[i]})

\* TfidfVectorizer(min_df=2, max_df=0.85): the terms kept by fit
VocabularioDe(textos) ==
    {t \in Termos : Df(t, textos) >= 2 /\ 100 * Df(t, textos) <= 85 * Len(textos)}

\* fit raises ValueError when max_df admits fewer documents than min_df or
\* when no term survives the cut-offs
FitFalha(textos) ==
    \/ 85 * Len(textos) < 2 * 100
    \/ VocabularioDe(textos) = {}

\* the vocabulary in feature order
RECURSIVE Ordenado(_)
Ordenado(s) ==
    IF s = {} THEN <<>>
    ELSE LET m == CHOOSE x \in s : \A y \in s : x <= y
         IN <<m>> \o Ordenado(s \ {m})

\* TfidfVectorizer.transform of one text under a fitted vocabulary
Transform(vocab, texto) ==
    LET feats == Ordenado(vocab)
    IN [d \in 1..Len(feats) |-> IF feats[d] \in texto THEN 1 ELSE 0]

RECURSIVE Dot(_, _)
Dot(a, b) == IF Len(a) = 0 THEN 0 ELSE a[1] * b[1] + Dot(Tail(a), Tail(b))

\* largest s with s*s <= n, for n in 0..10000
ISqrt(n) == CHOOSE s \in 0..100 : s * s <= n /\ n < (s + 1) * (s + 1)

\* cosine similarity of two vectors of equal dimension, times 100 (line 185);
\* a zero vector has similarity 0 with everything
Cosseno100(a, b) ==
    LET na == Dot(a, a)
        nb == Dot(b, b)
        ab == Dot(a, b)
    IN IF na = 0 \/ nb = 0 THEN 0
       ELSE LET m == ISqrt((10000 * ab * ab) \div (na * nb))
            IN IF ab < 0 THEN 0 - m ELSE m

--------------------------------------------------------------------------
(* RecomendadorFornecedores *)

NaoAjustado == [ajustado |-> FALSE, vocab |-> {}]

\* __init__ without modelo_path, lines 36-47
Novo ==
    [ sentence_transformer |-> "None",
      vectorizer           |-> NaoAjustado,
      fornecedores_vetores |-> None,
      fornecedores_dados   |-> None,
      ultimo_treinamento   |-> None ]

Retorno(v) == [tipo |-> "retorno", valor |-> v, erro |-> ""]
Excecao(e) == [tipo |-> "excecao", valor |-> <<>>, erro |-> e]

\* _inicializar_sentence_transformer, lines 84-92: disponivel says whether
\* SentenceTransformer(...) could be constructed on this attempt
InicializarSentenceTransformer(r, disponivel) ==
    [r EXCEPT !.sentence_transformer = IF disponivel THEN "carregado" ELSE "None"]


\* the matrix produced by SentenceTransformer.encode(textos), line 126
VetoresSemanticos(textos) ==
    [estrategia |-> "semantica", linhas |-> [i \in 1..Len(textos) |-> Encode(textos[i])]]

\* the matrix returned by vectorizer.fit_transform(textos), line 130
VetoresTfidf(textos) ==
    [ estrategia |-> "tfidf",
      linhas |-> [i \in 1..Len(textos) |-> Transform(VocabularioDe(textos), textos[i])] ]

\* the state fit_transform leaves in self.vectorizer, line 130
Ajustado(textos) == [ajustado |-> TRUE, vocab |-> VocabularioDe(textos)]

\* treinar, lines 119-121: the sentence transformer is initialised when the
\* instance holds none
TreinarInicializar(r, disponivel) ==
    IF r.sentence_transformer = "None"
    THEN InicializarSentenceTransformer(r, disponivel)
    ELSE r

\* treinar, line 130: fit_transform refits self.vectorizer in place
TreinarAjustar(r, textos) == [r EXCEPT !.vectorizer = Ajustado(textos)]

\* treinar, lines 124-130: the assignment to self.fornecedores_vetores
TreinarVetores(r, textos) ==
    [r EXCEPT !.fornecedores_vetores =
        Some(IF r.sentence_transformer # "None"
             THEN VetoresSemanticos(textos) ELSE VetoresTfidf(textos))]

\* line 133 storing the records in the reverse of the order of the texts
TreinarDadosInvertidos(r, fornecedores) ==
    [r EXCEPT !.fornecedores_dados =
        Some([i \in 1..Len(fornecedores) |-> fornecedores[Len(fornecedores) + 1 - i]])]

\* treinar, line 133
TreinarDados(r, fornecedores) == [r EXCEPT !.fornecedores_dados = Some(fornecedores)]

\* treinar, line 134
TreinarTimestamp(r, agora) == [r EXCEPT !.ultimo_treinamento = Some(agora)]
\* treinar without the early return of lines 101-103: the empty list goes
\* through initialisation, embedding and the three assignments
TreinarSemGuarda(r, fornecedores, disponivel, agora) ==
    LET textos == TextosDe(fornecedores)
        tentou == r.sentence_transformer = "None"
        r1     == TreinarInicializar(r, disponivel)
    IN IF r1.sentence_transformer = "None" /\ FitFalha(textos)
       THEN [rec |-> r1, res |-> Excecao("ValueError"), tentou |-> tentou]
       ELSE LET r2 == IF r1.sentence_transformer = "None"
                      THEN TreinarAjustar(r1, textos) ELSE r1
            IN [ rec |-> TreinarTimestamp(TreinarDados(TreinarVetores(r2, textos), fornecedores), agora),
                 res |-> Retorno(<<>>), tentou |-> tentou ]


\* treinar, lines 94-136.  Gives the instance after the call, what the caller
\* gets, and whether the call tried to initialise the sentence transformer.
\* An empty list returns at once; a fit that raises leaves the exception to
\* the caller with nothing but the initialisation attempt done.
Treinar(r, fornecedores, disponivel, agora) ==
    IF Len(fornecedores) = 0
    THEN [rec |-> r, res |-> Retorno(<<>>), tentou |-> FALSE]
    ELSE LET textos == TextosDe(fornecedores)
             tentou == r.sentence_transformer = "None"
             r1     == TreinarInicializar(r, disponivel)
         IN IF r1.sentence_transformer = "None" /\ FitFalha(textos)
            THEN [rec |-> r1, res |-> Excecao("ValueError"), tentou |-> tentou]
            ELSE LET r2 == IF r1.sentence_transformer = "None"
                           THEN TreinarAjustar(r1, textos) ELSE r1
                 IN [ rec |-> TreinarTimestamp(
                                 TreinarDados(TreinarVetores(r2, textos), fornecedores),
                                 agora),
                      res |-> Retorno(<<>>), tentou |-> tentou ]

\* recomendar, lines 164-171: the query vector, from the sentence transformer
\* when the instance holds one and from the fitted vectorizer otherwise;
\* transform of a vectorizer that was never fitted raises NotFittedError
Vetorizar(st, vec, texto) ==
    IF st # "None" THEN [ok |-> TRUE, vetor |-> Encode(texto), erro |-> ""]
    ELSE IF ~vec.ajustado THEN [ok |-> FALSE, vetor |-> <<>>, erro |-> "NotFittedError"]
    ELSE [ok |-> TRUE, vetor |-> Transform(vec.vocab, texto), erro |-> ""]

\* cosine_similarity(vetor_licitacao, fornecedores_vetores)[0], lines 168/173:
\* one similarity per stored row; ValueError when the dimensions differ
Similaridades(vetor, vetores) ==
    LET linhas == vetores.linhas
    IN IF \E i \in 1..Len(linhas) : Len(linhas[i]) # Len(vetor)
       THEN [ok |-> FALSE, sims |-> <<>>, erro |-> "ValueError"]
       ELSE [ ok |-> TRUE,
              sims |-> [i \in 1..Len(linhas) |-> Cosseno100(vetor, linhas[i])],
              erro |-> "" ]

\* similaridades.argsort(): the indices in ascending order of similarity,
\* equal similarities in index order
Argsort(sims) ==
    LET n == Len(sims)
        pos(i) == 1 + Cardinality({j \in 1..n :
                        sims[j] < sims[i] \/ (sims[j] = sims[i] /\ j < i)})
    IN [p \in 1..n |-> CHOOSE i \in 1..n : pos(i) = p]

\* seq[-top_n:] as Python slices it
Ultimos(seq, top_n) ==
    LET n == Len(seq)
        inicio == IF top_n > 0 THEN Max(0, n - top_n) ELSE Min(n, 0 - top_n)
    IN [p \in 1..(n - inicio) |-> seq[inicio + p]]

\* seq[::-1]
Reverso(seq) == [p \in 1..Len(seq) |-> seq[Len(seq) + 1 - p]]

\* line 176: similaridades.argsort()[-top_n:][::-1]
IndicesTop(sims, top_n) == Reverso(Ultimos(Argsort(sims), top_n))

\* lines 179-187: one entry per index that has a supplier record
RECURSIVE Montar(_, _, _, _)
Montar(indices, i, sims, dados) ==
    IF i > Len(indices) THEN <<>>
    ELSE LET idx == indices[i]
         IN (IF idx <= Len(dados)
             THEN << [fornecedor |-> dados[idx], pontuacao |-> sims[idx], ranking |-> i] >>
             ELSE <<>>)
            \o Montar(indices, i + 1, sims, dados)

\* recomendar, lines 138-190
Recomendar(r, licitacao, top_n) ==
    IF IsNone(r.fornecedores_vetores) \/ IsNone(r.fornecedores_dados)
    THEN Retorno(<<>>)
    ELSE LET v == Vetorizar(r.sentence_transformer, r.vectorizer, licitacao.termos)
         IN IF ~v.ok THEN Excecao(v.erro)
            ELSE LET s == Similaridades(v.vetor, Val(r.fornecedores_vetores))
                 IN IF ~s.ok THEN Excecao(s.erro)
                    ELSE Retorno(Montar(IndicesTop(s.sims, top_n), 1, s.sims,
                                        Val(r.fornecedores_dados)))

--------------------------------------------------------------------------
(* avaliar_recomendacoes *)

\* top_n of the recomendar calls of avaliar_recomendacoes, line 258
TopNAvaliacao == 10

RECURSIVE Mdc(_, _)
Mdc(a, b) == IF b = 0 THEN a ELSE Mdc(b, a % b)

\* the quotient n / d of two integers, d > 0, as a fraction in lowest terms
Frac(n, d) ==
    LET g == Mdc(IF n < 0 THEN 0 - n ELSE n, d)
        q == (IF n < 0 THEN 0 - n ELSE n) \div g
    IN [n |-> IF n < 0 THEN 0 - q ELSE q, d |-> d \div g]
Zero == Frac(0, 1)
FracSoma(a, b) == Frac(a.n * b.d + b.n * a.d, a.d * b.d)
FracProd(a, b) == Frac(a.n * b.n, a.d * b.d)
FracDiv(a, b) == Frac(a.n * b.d, a.d * b.n)

\* the elements of a list, as set() gives them
Conjunto(seq) == {seq[i] : i \in 1..Len(seq)}

\* lines 259-270: precision, recall and F1 of one list of recommendations
\* against one list of correct ids
MetricasDe(recomendacoes, ids_corretos) ==
    LET ids_recomendados == [i \in 1..Len(recomendacoes) |-> recomendacoes[i].fornecedor.id]
        relevantes == Conjunto(ids_recomendados) \cap Conjunto(ids_corretos)
        precisao == IF Len(ids_recomendados) > 0
                    THEN Frac(Cardinality(relevantes), Len(ids_recomendados)) ELSE Zero
        recall   == IF Len(ids_corretos) > 0
                    THEN Frac(Cardinality(relevantes), Len(ids_corretos)) ELSE Zero
        soma     == FracSoma(precisao, recall)
        f1       == IF soma.n > 0
                    THEN FracDiv(FracProd(Frac(2, 1), FracProd(precisao, recall)), soma)
                    ELSE Zero
    IN [precisao |-> precisao, recall |-> recall, f1 |-> f1]

\* lines 257-274: the loop from test i on, with the totals so far; an
\* exception of recomendar ends the call
RECURSIVE AvaliarDesde(_, _, _, _, _)
AvaliarDesde(r, licitacoes_teste, fornecedores_corretos, i, tot) ==
    IF i > Len(licitacoes_teste)
    THEN [ok |-> TRUE, tot |-> tot, chamadas |-> i - 1, erro |-> ""]
    ELSE LET rec == Recomendar(r, licitacoes_teste[i], TopNAvaliacao)
         IN IF rec.tipo = "excecao"
            THEN [ok |-> FALSE, tot |-> tot, chamadas |-> i, erro |-> rec.erro]
            ELSE LET m == MetricasDe(rec.valor, fornecedores_corretos[i])
                 IN AvaliarDesde(r, licitacoes_teste, fornecedores_corretos, i + 1,
                                 [ precisao |-> FracSoma(tot.precisao, m.precisao),
                                   recall   |-> FracSoma(tot.recall, m.recall),
                                   f1       |-> FracSoma(tot.f1, m.f1) ])

\* avaliar_recomendacoes, lines 238-284.  Gives what the caller gets (a dict is
\* a function of its keys, the empty dict the empty function) and the number
\* of recomendar calls made.
AvaliarRecomendacoes(r, licitacoes_teste, fornecedores_corretos) ==
    IF Len(licitacoes_teste) # Len(fornecedores_corretos)
    THEN [res |-> Retorno(<<>>), chamadas |-> 0]
    ELSE LET a == AvaliarDesde(r, licitacoes_teste, fornecedores_corretos, 1,
                               [precisao |-> Zero, recall |-> Zero, f1 |-> Zero])
             num_testes == Len(licitacoes_teste)
         IN IF ~a.ok THEN [res |-> Excecao(a.erro), chamadas |-> a.chamadas]
            ELSE IF num_testes = 0
                 THEN [res |-> Excecao("ZeroDivisionError"), chamadas |-> a.chamadas]
                 ELSE [ res |-> Retorno(
                                  [ precisao_media |-> FracDiv(a.tot.precisao, Frac(num_testes, 1)),
                                    recall_medio   |-> FracDiv(a.tot.recall, Frac(num_testes, 1)),
                                    f1_medio       |-> FracDiv(a.tot.f1, Frac(num_testes, 1)) ]),
                        chamadas |-> a.chamadas ]

--------------------------------------------------------------------------
(* The database: bids, suppliers, proposals and supplier evaluations *)

LicIds == {1}
FornIds == {1, 2}

StatusLicitacao ==
    { "rascunho", "publicada", "em_analise", "adjudicada", "homologada",
      "concluida", "cancelada", "suspensa" }

\* VALID_TRANSITIONS, kanban_integration.py lines 26-35
VALID_TRANSITIONS ==
    [ s \in StatusLicitacao |->
        CASE s = "rascunho"   -> {"publicada", "cancelada"}
          [] s = "publicada"  -> {"em_analise", "cancelada", "suspensa"}
          [] s = "em_analise" -> {"adjudicada", "cancelada", "suspensa"}
          [] s = "adjudicada" -> {"homologada", "cancelada", "suspensa"}
          [] s = "homologada" -> {"concluida", "cancelada", "suspensa"}
          [] s = "suspensa"   -> {"publicada", "em_analise", "adjudicada", "homologada",
                                  "cancelada"}
          [] OTHER            -> {} ]

\* Licitacao.valor_estimado is a nullable Float (licitacao.py line 76)
ValoresEstimados == {None, Some(0), Some(100)}
\* Proposta.valor and Proposta.prazo_entrega (licitacao.py lines 118-119)
ValoresProposta == {0, 150}
PrazosEntrega == {0, 3, 45}
\* AvaliacaoFornecedor.pontuacao, a rating on the 0-5 scale
Pontuacoes == {0, 5}

\* no row with this id
SemLicitacao ==
    [ existe |-> FALSE, status |-> "rascunho", valor_estimado |-> None,
      data_publicacao |-> None, data_encerramento |-> None ]
SemFornecedor == [existe |-> FALSE, avaliacao_media |-> Zero]

\* the worker threads that serve create_proposta at the same time
Pedidos == {1, 2}

\* a thread with no request in progress
PedidoLivre ==
    [pc |-> "livre", licitacao_id |-> 0, fornecedor_id |-> 0, valor |-> 0, prazo_entrega |-> 0]

BancoVazio ==
    [ licitacoes   |-> [l \in LicIds |-> SemLicitacao],
      fornecedores |-> [f \in FornIds |-> SemFornecedor],
      propostas    |-> <<>>,
      avaliacoes   |-> EmptyBag ]

Resposta(op, codigo, status, licitacao_id, alvo) ==
    [op |-> op, codigo |-> codigo, status |-> status, licitacao_id |-> licitacao_id, alvo |-> alvo]

FracSub(a, b) == Frac(a.n * b.d - b.n * a.d, a.d * b.d)
FracMenor(a, b) == a.n * b.d < b.n * a.d
FracMin(a, b) == IF FracMenor(b, a) THEN b ELSE a
FracMax(a, b) == IF FracMenor(a, b) THEN b ELSE a
\* max(0, min(100, x)), tasks.py lines 211 and 214
Limitar(x) == FracMax(Frac(0, 1), FracMin(Frac(100, 1), x))

\* the 30 days of the delivery factor, tasks.py line 213
DiasNormalizacao == 30

\* the price factor without the clamp of line 211
PrecoScoreSemLimite(valor, valor_estimado) ==
    IF IsNone(valor_estimado)
    THEN [ok |-> FALSE, valor |-> Zero, erro |-> "TypeError"]
    ELSE [ ok |-> TRUE, erro |-> "",
           valor |-> IF Val(valor_estimado) > 0
                     THEN FracSub(Frac(100, 1),
                                  FracProd(Frac(valor, Val(valor_estimado)), Frac(100, 1)))
                     ELSE Frac(50, 1) ]

\* tasks.py lines 210-211; comparing None with 0 raises TypeError
PrecoScore(valor, valor_estimado) ==
    IF IsNone(valor_estimado)
    THEN [ok |-> FALSE, valor |-> Zero, erro |-> "TypeError"]
    ELSE [ ok |-> TRUE, erro |-> "",
           valor |-> Limitar(IF Val(valor_estimado) > 0
                             THEN FracSub(Frac(100, 1),
                                          FracProd(Frac(valor, Val(valor_estimado)), Frac(100, 1)))
                             ELSE Frac(50, 1)) ]

\* the delivery factor without the clamp of line 214
PrazoScoreSemLimite(prazo_entrega) ==
    IF prazo_entrega > 0
    THEN FracSub(Frac(100, 1), FracProd(Frac(prazo_entrega, DiasNormalizacao), Frac(100, 1)))
    ELSE Frac(50, 1)

\* tasks.py lines 213-214
PrazoScore(prazo_entrega) ==
    Limitar(IF prazo_entrega > 0
            THEN FracSub(Frac(100, 1),
                         FracProd(Frac(prazo_entrega, DiasNormalizacao), Frac(100, 1)))
            ELSE Frac(50, 1))

\* tasks.py line 216
AvaliacaoScore(avaliacao_media) == FracProd(avaliacao_media, Frac(20, 1))

\* tasks.py lines 219-228: weights 0.5, 0.3 and 0.2
Pontuacao(preco_score, prazo_score, avaliacao_score) ==
    FracSoma(FracSoma(FracProd(preco_score, Frac(1, 2)),
                      FracProd(prazo_score, Frac(3, 10))),
             FracProd(avaliacao_score, Frac(1, 5)))

\* tasks.py lines 209-228: the factors and the score of one proposal
PontuarProposta(valor, prazo_entrega, valor_estimado, avaliacao_media) ==
    LET preco == PrecoScore(valor, valor_estimado)
        prazo == PrazoScore(prazo_entrega)
        avaliacao == AvaliacaoScore(avaliacao_media)
    IN [ ok |-> preco.ok, erro |-> preco.erro,
         preco_score |-> preco.valor, prazo_score |-> prazo, avaliacao_score |-> avaliacao,
         pontuacao |-> IF preco.ok THEN Pontuacao(preco.valor, prazo, avaliacao) ELSE Zero ]

\* the database statements of the task that can raise on a lost connection:
\* 0 is a run in which none does, i in 1..Len(propostas) is the query of line
\* 201 for the proposal at position i, Len(propostas) + 1 is the commit of
\* line 235
SemFalha == 0
FalhaNoCommit(propostas) == Len(propostas) + 1
Falhas(propostas) == 0..FalhaNoCommit(propostas)

\* tasks.py lines 199-232: the loop over the proposals of the bid from
\* position i on, in a session that is committed only after the loop
RECURSIVE PontuarDesde(_, _, _, _, _)
PontuarDesde(b, licitacao_id, propostas, i, falha_em) ==
    IF i > Len(propostas) THEN [ok |-> TRUE, propostas |-> propostas, erro |-> ""]
    ELSE LET p == propostas[i]
         IN IF p.licitacao_id # licitacao_id
            THEN PontuarDesde(b, licitacao_id, propostas, i + 1, falha_em)
            ELSE IF falha_em = i
            THEN [ok |-> FALSE, propostas |-> propostas, erro |-> "OperationalError"]
            ELSE IF ~b.fornecedores[p.fornecedor_id].existe
            THEN PontuarDesde(b, licitacao_id, propostas, i + 1, falha_em)
            ELSE LET r == PontuarProposta(p.valor, p.prazo_entrega,
                                          b.licitacoes[licitacao_id].valor_estimado,
                                          b.fornecedores[p.fornecedor_id].avaliacao_media)
                 IN IF ~r.ok
                    THEN [ok |-> FALSE, propostas |-> propostas, erro |-> r.erro]
                    ELSE PontuarDesde(b, licitacao_id,
                            [propostas EXCEPT ![i].pontuacao_ia = Some(r.pontuacao)],
                            i + 1, falha_em)

\* calculate_supplier_scores with a commit after every proposal: what the
\* session has written when the task fails stays in the database
CalculateSupplierScoresCommitPorProposta(b, licitacao_id, falha_em) ==
    IF licitacao_id \notin LicIds \/ ~b.licitacoes[licitacao_id].existe
    THEN [banco |-> b, status |-> "error"]
    ELSE LET r == PontuarDesde(b, licitacao_id, b.propostas, 1, falha_em)
         IN IF r.ok THEN [banco |-> [b EXCEPT !.propostas = r.propostas], status |-> "success"]
            ELSE [banco |-> [b EXCEPT !.propostas = r.propostas], status |-> "error"]

\* calculate_supplier_scores, tasks.py lines 174-255: the database after the
\* task and the status of its result; the session is committed once, after
\* the loop (line 235), and closing it (line 253) discards what a failed run
\* had written
CalculateSupplierScores(b, licitacao_id, falha_em) ==
    IF licitacao_id \notin LicIds \/ ~b.licitacoes[licitacao_id].existe
    THEN [banco |-> b, status |-> "error"]
    ELSE LET r == PontuarDesde(b, licitacao_id, b.propostas, 1, falha_em)
         IN IF r.ok /\ falha_em # FalhaNoCommit(b.propostas)
            THEN [banco |-> [b EXCEPT !.propostas = r.propostas], status |-> "success"]
            ELSE [banco |-> b, status |-> "error"]

\* the rows of avaliacoes_fornecedores of one supplier (a bag: the table
\* keeps no order), and the sum of their pontuacao, fornecedores.py lines 223-224
AvaliacoesDe(avaliacoes, fornecedor_id) ==
    [a \in {x \in BagToSet(avaliacoes) : x.fornecedor_id = fornecedor_id} |-> avaliacoes[a]]

RECURSIVE SomaPontuacoes(_)
SomaPontuacoes(avaliacoes) ==
    IF avaliacoes = EmptyBag THEN 0
    ELSE LET a == CHOOSE x \in BagToSet(avaliacoes) : TRUE
         IN a.pontuacao * CopiesIn(a, avaliacoes)
            + SomaPontuacoes([x \in BagToSet(avaliacoes) \ {a} |-> avaliacoes[x]])

--------------------------------------------------------------------------
(* The model file *)

Chaves == {"fornecedores_vetores", "fornecedores_dados", "vectorizer", "ultimo_treinamento"}

SemArquivo(tipo) ==
    [ tipo |-> tipo, chaves |-> {},
      fornecedores_vetores |-> None, fornecedores_dados |-> None,
      vectorizer |-> NaoAjustado, ultimo_treinamento |-> None ]

\* no file at the location
ArquivoAusente == SemArquivo("ausente")
\* a file joblib.load cannot read
ArquivoCorrompido == SemArquivo("corrompido")

\* the dictionary of lines 204-209 without the training timestamp
PayloadSemTimestamp(r) ==
    [ tipo |-> "payload", chaves |-> Chaves,
      fornecedores_vetores |-> r.fornecedores_vetores,
      fornecedores_dados   |-> r.fornecedores_dados,
      vectorizer           |-> r.vectorizer,
      ultimo_treinamento   |-> None ]

\* the dictionary salvar_modelo dumps, lines 204-209
Payload(r) ==
    [ tipo |-> "payload", chaves |-> Chaves,
      fornecedores_vetores |-> r.fornecedores_vetores,
      fornecedores_dados   |-> r.fornecedores_dados,
      vectorizer           |-> r.vectorizer,
      ultimo_treinamento   |-> r.ultimo_treinamento ]

\* salvar_modelo, lines 192-215: the file after the call.  io is what
\* joblib.dump met: "ok", "erro_antes" (nothing written), "erro_durante"
\* (the file is left truncated); both errors are caught and logged
SalvarModelo(r, arquivo, io) ==
    IF IsNone(r.fornecedores_vetores) \/ IsNone(r.fornecedores_dados) THEN arquivo
    ELSE CASE io = "ok"           -> Payload(r)
           [] io = "erro_durante" -> ArquivoCorrompido
           [] OTHER               -> arquivo

\* carregar_modelo, lines 217-236: the instance after the call and whether the
\* except branch ran.  joblib.load raises on a missing or unreadable file; the
\* fields are assigned one by one, so a missing key raises KeyError after the
\* fields before it were assigned; ultimo_treinamento is read with .get
CarregarModelo(r, arquivo) ==
    IF arquivo.tipo # "payload" \/ "fornecedores_vetores" \notin arquivo.chaves
    THEN [rec |-> r, falhou |-> TRUE]
    ELSE LET r1 == [r EXCEPT !.fornecedores_vetores = arquivo.fornecedores_vetores]
         IN IF "fornecedores_dados" \notin arquivo.chaves
            THEN [rec |-> r1, falhou |-> TRUE]
            ELSE LET r2 == [r1 EXCEPT !.fornecedores_dados = arquivo.fornecedores_dados]
                 IN IF "vectorizer" \notin arquivo.chaves
                    THEN [rec |-> r2, falhou |-> TRUE]
                    ELSE [ rec |-> [r2 EXCEPT
                                      !.vectorizer = arquivo.vectorizer,
                                      !.ultimo_treinamento =
                                          IF "ultimo_treinamento" \in arquivo.chaves
                                          THEN arquivo.ultimo_treinamento ELSE None],
                           falhou |-> FALSE ]

\* __init__, lines 36-51: with a modelo_path that exists the file is loaded
Construir(comPath, arquivo) ==
    IF comPath /\ arquivo.tipo # "ausente"
    THEN CarregarModelo(Novo, arquivo).rec
    ELSE Novo

--------------------------------------------------------------------------
(* Calls on the instance, one at a time *)

Op(nome, n, lic, k, falhou) ==
    [ op |-> nome, n |-> n, licitacao |-> lic, top_n |-> k, falhou |-> falhou,
      m |-> 0, chamadas |-> 0 ]

\* no call in progress on the thread
Parado ==
    [ pc |-> "parado", fornecedores |-> <<>>, licitacao |-> 0, top_n |-> 0,
      vetor |-> <<>>, sims |-> <<>>,
      lido |-> Novo ]

\* the state after construction, but for the reply of the last request
InitSemResposta ==
    /\ recomendador = Novo
    /\ disco = ArquivoAusente
    /\ relogio = 0
    /\ tentativas = 0
    /\ ultimaOp = Op("init", 0, 0, 0, FALSE)
    /\ resultado = Retorno(<<>>)
    /\ treino = Parado
    /\ leitor = Parado
    /\ banco = BancoVazio
    /\ pedidos = [p \in Pedidos |-> PedidoLivre]

Init ==
    /\ InitSemResposta
    /\ resposta = Resposta("init", 0, "", 0, "")

\* recomendador.treinar(fornecedores)
ChamarTreinar ==
    \E fornecedores \in ListasTreino, disponivel \in BOOLEAN :
        /\ Len(fornecedores) > 0 => relogio < MaxRelogio
        /\ \E agora \in {IF Len(fornecedores) > 0 THEN relogio + 1 ELSE relogio} :
           \E t \in {Treinar(recomendador, fornecedores, disponivel, agora)} :
              /\ recomendador' = t.rec
              /\ relogio' = agora
              /\ tentativas' = IF t.tentou THEN tentativas + 1 ELSE tentativas
              /\ ultimaOp' = Op("treinar", Len(fornecedores), 0, 0, t.res.tipo = "excecao")
              /\ resultado' = t.res
        /\ UNCHANGED <<disco, treino, leitor, banco, pedidos, resposta>>

\* recomendador.recomendar(licitacao, top_n)
ChamarRecomendar ==
    \E licitacao \in Licitacoes, top_n \in TopNs :
        /\ resultado' = Recomendar(recomendador, licitacao, top_n)
        /\ ultimaOp' = Op("recomendar", 0, licitacao.id, top_n, resultado'.tipo = "excecao")
        /\ UNCHANGED <<recomendador, disco, relogio, tentativas, treino, leitor, banco, pedidos, resposta>>

\* recomendador.salvar_modelo("modelo_recomendador.joblib")
ChamarSalvarModelo ==
    \E io \in {"ok", "erro_antes", "erro_durante"} :
        /\ disco' = SalvarModelo(recomendador, disco, io)
        /\ ultimaOp' = Op("salvar_modelo", 0, 0, 0,
                          io # "ok" \/ IsNone(recomendador.fornecedores_vetores)
                                    \/ IsNone(recomendador.fornecedores_dados))
        /\ resultado' = Retorno(<<>>)
        /\ UNCHANGED <<recomendador, relogio, tentativas, treino, leitor, banco, pedidos, resposta>>

\* recomendador.carregar_modelo("modelo_recomendador.joblib")
ChamarCarregarModelo ==
    \E c \in {CarregarModelo(recomendador, disco)} :
       /\ recomendador' = c.rec
       /\ ultimaOp' = Op("carregar_modelo", 0, 0, 0, c.falhou)
       /\ resultado' = Retorno(<<>>)
       /\ UNCHANGED <<disco, relogio, tentativas, treino, leitor, banco, pedidos, resposta>>

\* the process is started again: recomendador = RecomendadorFornecedores(...)
Reiniciar ==
    \E comPath \in BOOLEAN :
        /\ recomendador' = Construir(comPath, disco)
        /\ tentativas' = 0
        /\ ultimaOp' = Op("init", 0, 0, 0, FALSE)
        /\ resultado' = Retorno(<<>>)
        /\ UNCHANGED <<disco, relogio, treino, leitor, banco, pedidos, resposta>>

\* the file is deleted, or damaged, outside the program
ArquivoDanificado ==
    /\ disco.tipo # "ausente"
    /\ disco' \in {ArquivoAusente, ArquivoCorrompido}
    /\ UNCHANGED <<recomendador, relogio, tentativas, ultimaOp, resultado, treino, leitor, banco, pedidos, resposta>>

\* the file at the location is a dictionary without one of the keys
\* (written by something other than salvar_modelo)
ArquivoIncompleto ==
    \E k \in Chaves :
        /\ disco.tipo = "payload"
        /\ disco.chaves = Chaves
        /\ disco' = [disco EXCEPT !.chaves = @ \ {k}]
        /\ UNCHANGED <<recomendador, relogio, tentativas, ultimaOp, resultado, treino, leitor, banco, pedidos, resposta>>

Next ==
    \/ ChamarTreinar
    \/ ChamarRecomendar
    \/ ChamarSalvarModelo
    \/ ChamarCarregarModelo
    \/ Reiniciar

Spec == Init /\ [][Next]_vars

\* the same calls, with a model file that may also be changed from outside
NextArquivo ==
    \/ Next
    \/ ArquivoDanificado
    \/ ArquivoIncompleto

SpecArquivo == Init /\ [][NextArquivo]_vars

--------------------------------------------------------------------------
(* Evaluation of a trained instance *)

\* test queries handed to avaliar_recomendacoes
TestesAvaliacao ==
    LET l(i) == CHOOSE x \in Licitacoes : x.id = i
    IN { <<>>, <<l(1)>>, <<l(2), l(3)>>, <<l(2), l(1)>> }

\* lists of correct supplier ids, one per test query
CorretosAvaliacao ==
    { <<>>, << <<1>> >>, << <<>> >>, << <<2, 3>>, <<1>> >>, << <<1, 2, 3>>, <<3, 3>> >> }

\* recomendador.avaliar_recomendacoes(licitacoes_teste, fornecedores_corretos)
ChamarAvaliar ==
    \E licitacoes_teste \in TestesAvaliacao, fornecedores_corretos \in CorretosAvaliacao :
        \E a \in {AvaliarRecomendacoes(recomendador, licitacoes_teste, fornecedores_corretos)} :
            /\ resultado' = a.res
            /\ ultimaOp' = [ Op("avaliar_recomendacoes", Len(licitacoes_teste), 0,
                                TopNAvaliacao, a.res.tipo = "excecao")
                             EXCEPT !.m = Len(fornecedores_corretos),
                                    !.chamadas = a.chamadas ]
            /\ resposta' = [ op |-> "avaliar_recomendacoes",
                             licitacoes_teste |-> licitacoes_teste,
                             fornecedores_corretos |-> fornecedores_corretos ]
            /\ UNCHANGED <<recomendador, disco, relogio, tentativas, treino, leitor, banco, pedidos>>

\* training, saving, loading and restarting, with evaluations in between
NextAvaliar ==
    \/ ChamarTreinar
    \/ ChamarSalvarModelo
    \/ ChamarCarregarModelo
    \/ Reiniciar
    \/ ChamarAvaliar

SpecAvaliar == Init /\ [][NextAvaliar]_vars

--------------------------------------------------------------------------
(* Requests and worker tasks on the database, one at a time *)

varsIA == <<recomendador, disco, relogio, tentativas, ultimaOp, resultado, treino, leitor,
            pedidos>>

\* POST /licitacoes, licitacoes.py lines 59-94; the bid starts as rascunho
\* (licitacao.py line 75)
CreateLicitacaoCom(valores) ==
    \E id \in LicIds, valor_estimado \in valores :
        /\ IF banco.licitacoes[id].existe
           THEN /\ resposta' = Resposta("create_licitacao", 400, "", id, "")
                /\ UNCHANGED banco
           ELSE /\ banco' = [banco EXCEPT !.licitacoes[id] =
                                [SemLicitacao EXCEPT !.existe = TRUE,
                                                     !.valor_estimado = valor_estimado]]
                /\ resposta' = Resposta("create_licitacao", 200, "", id, "")
        /\ UNCHANGED varsIA

CreateLicitacao == CreateLicitacaoCom(ValoresEstimados)

\* POST /fornecedores, fornecedores.py lines 59-99
CreateFornecedor ==
    \E id \in FornIds :
        /\ IF banco.fornecedores[id].existe
           THEN /\ resposta' = Resposta("create_fornecedor", 400, "", 0, "")
                /\ UNCHANGED banco
           ELSE /\ banco' = [banco EXCEPT !.fornecedores[id] =
                                [SemFornecedor EXCEPT !.existe = TRUE]]
                /\ resposta' = Resposta("create_fornecedor", 200, "", 0, "")
        /\ UNCHANGED varsIA

\* update_licitacao_status without the check of lines 258-262 on a concluida bid
UpdateLicitacaoStatusSemConcluida(alvos) ==
    \E id \in LicIds, status \in alvos :
        LET licitacao == banco.licitacoes[id]
        IN /\ IF ~licitacao.existe \/ licitacao.status = "cancelada"
              THEN /\ resposta' = Resposta("update_licitacao_status", 500, "", id, status)
                   /\ UNCHANGED banco
              ELSE /\ banco' = [banco EXCEPT !.licitacoes[id].status = status]
                   /\ resposta' = Resposta("update_licitacao_status", 200, "", id, status)
           /\ UNCHANGED varsIA

\* PUT /licitacoes/{id}/status, licitacoes.py lines 221-280.  The parameter
\* `status` hides fastapi's status module, so the three `raise HTTPException(
\* status_code=status.HTTP_...)` end in an AttributeError, answered 500.
UpdateLicitacaoStatusPara(alvos) ==
    \E id \in LicIds, status \in alvos :
        LET licitacao == banco.licitacoes[id]
        IN /\ IF \/ ~licitacao.existe
                 \/ licitacao.status = "cancelada"
                 \/ (licitacao.status = "concluida" /\ status # "concluida")
              THEN /\ resposta' = Resposta("update_licitacao_status", 500, "", id, status)
                   /\ UNCHANGED banco
              ELSE /\ banco' = [banco EXCEPT !.licitacoes[id] =
                         [licitacao EXCEPT
                            !.status = status,
                            !.data_publicacao =
                                IF status = "publicada" /\ IsNone(licitacao.data_publicacao)
                                THEN Some(relogio) ELSE @,
                            !.data_encerramento =
                                IF status = "concluida" /\ IsNone(licitacao.data_encerramento)
                                THEN Some(relogio) ELSE @]]
                   /\ resposta' = Resposta("update_licitacao_status", 200, "", id, status)
           /\ UNCHANGED varsIA

UpdateLicitacaoStatus == UpdateLicitacaoStatusPara(StatusLicitacao)

\* the bids and the requests that move them through their statuses
NextLicitacao == CreateLicitacao \/ UpdateLicitacaoStatus

SpecLicitacao == Init /\ [][NextLicitacao]_vars

\* the request that opens a bid for proposals
PublicarLicitacao == UpdateLicitacaoStatusPara({"publicada"})

\* POST /propostas by an administrator or manager, propostas.py lines 74-159
CreatePropostaCom(valores, prazos) ==
    \E licitacao_id \in LicIds, fornecedor_id \in FornIds,
       valor \in valores, prazo_entrega \in prazos :
        LET licitacao == banco.licitacoes[licitacao_id]
            existente == \E i \in 1..Len(banco.propostas) :
                            /\ banco.propostas[i].licitacao_id = licitacao_id
                            /\ banco.propostas[i].fornecedor_id = fornecedor_id
            codigo == IF ~licitacao.existe THEN 404
                      ELSE IF licitacao.status # "publicada" THEN 400
                      ELSE IF ~banco.fornecedores[fornecedor_id].existe THEN 404
                      ELSE IF existente THEN 400
                      ELSE 200
        IN /\ resposta' = Resposta("create_proposta", codigo, "", licitacao_id, "")
           /\ banco' = IF codigo # 200 THEN banco
                       ELSE [banco EXCEPT !.propostas = Append(@,
                               [ licitacao_id |-> licitacao_id, fornecedor_id |-> fornecedor_id,
                                 valor |-> valor, prazo_entrega |-> prazo_entrega,
                                 status |-> "enviada",
                                 pontuacao_ia |-> None, is_vencedora |-> FALSE ])]
           /\ UNCHANGED varsIA

CreateProposta == CreatePropostaCom(ValoresProposta, PrazosEntrega)

\* POST /fornecedores/{id}/avaliacoes, fornecedores.py lines 184-229
CreateAvaliacao ==
    \E fornecedor_id \in FornIds, pontuacao \in Pontuacoes :
        /\ BagCardinality(banco.avaliacoes) < MaxAvaliacoes
        /\ IF ~banco.fornecedores[fornecedor_id].existe
           THEN /\ resposta' = Resposta("create_avaliacao", 404, "", 0, "")
                /\ UNCHANGED banco
           ELSE LET todas == banco.avaliacoes (+)
                                SetToBag({[fornecedor_id |-> fornecedor_id, pontuacao |-> pontuacao]})
                    avaliacoes == AvaliacoesDe(todas, fornecedor_id)
                IN /\ banco' = [banco EXCEPT
                                  !.avaliacoes = todas,
                                  !.fornecedores[fornecedor_id].avaliacao_media =
                                      Frac(SomaPontuacoes(avaliacoes), BagCardinality(avaliacoes))]
                   /\ resposta' = Resposta("create_avaliacao", 200, "", 0, "")
        /\ UNCHANGED varsIA

\* the worker runs calculate_supplier_scores(licitacao_id)
ChamarCalculateSupplierScores ==
    \E licitacao_id \in LicIds :
        \E r \in {CalculateSupplierScores(banco, licitacao_id, SemFalha)} :
            /\ banco' = r.banco
            /\ resposta' = Resposta("calculate_supplier_scores", 0, r.status, licitacao_id, "")
        /\ UNCHANGED varsIA

\* bids receive proposals, suppliers are rated, proposals are scored
NextPontuacao ==
    \/ CreateLicitacao
    \/ CreateFornecedor
    \/ PublicarLicitacao
    \/ CreateProposta
    \/ CreateAvaliacao
    \/ ChamarCalculateSupplierScores

SpecPontuacao == Init /\ [][NextPontuacao]_vars

\* the worker runs calculate_supplier_scores(licitacao_id) against a database
\* whose connection can be lost at any statement of the task
ChamarCalculateSupplierScoresComFalha ==
    \E licitacao_id \in LicIds, falha_em \in Falhas(banco.propostas) :
        \E r \in {CalculateSupplierScores(banco, licitacao_id, falha_em)} :
            /\ banco' = r.banco
            /\ resposta' = [ op |-> "calculate_supplier_scores", codigo |-> 0,
                             status |-> r.status, licitacao_id |-> licitacao_id,
                             alvo |-> "", falha_em |-> falha_em ]
        /\ UNCHANGED varsIA

\* bids receive proposals, suppliers are rated, and the scoring task runs
\* with and without failures of the database
NextTarefa ==
    \/ CreateLicitacaoCom({None, Some(100)})
    \/ CreateFornecedor
    \/ PublicarLicitacao
    \/ CreatePropostaCom(ValoresProposta, {3})
    \/ CreateAvaliacao
    \/ ChamarCalculateSupplierScoresComFalha

SpecTarefa == Init /\ [][NextTarefa]_vars

--------------------------------------------------------------------------
(* create_proposta requests served at the same time.  Each request has its
   own session (get_db): its queries read the committed rows and its
   commit adds its row. *)

\* propostas.py lines 96-146: the checks of the request on thread p, up to
\* the query for a proposal of the same supplier
CreatePropostaVerificar(p) ==
    /\ pedidos[p].pc = "livre"
    /\ \E licitacao_id \in LicIds, fornecedor_id \in FornIds :
        LET licitacao == banco.licitacoes[licitacao_id]
            existente == \E i \in 1..Len(banco.propostas) :
                            /\ banco.propostas[i].licitacao_id = licitacao_id
                            /\ banco.propostas[i].fornecedor_id = fornecedor_id
            codigo == IF ~licitacao.existe THEN 404
                      ELSE IF licitacao.status # "publicada" THEN 400
                      ELSE IF ~banco.fornecedores[fornecedor_id].existe THEN 404
                      ELSE IF existente THEN 400
                      ELSE 200
        IN IF codigo # 200
           THEN /\ resposta' = Resposta("create_proposta", codigo, "", licitacao_id, "")
                /\ UNCHANGED pedidos
           ELSE /\ pedidos' = [pedidos EXCEPT ![p] =
                                 [ pc |-> "verificado", licitacao_id |-> licitacao_id,
                                   fornecedor_id |-> fornecedor_id,
                                   valor |-> 0, prazo_entrega |-> 3 ]]
                /\ UNCHANGED resposta
    /\ UNCHANGED <<banco, recomendador, disco, relogio, tentativas, ultimaOp, resultado,
                   treino, leitor>>

\* propostas.py lines 149-159: the insert and the commit of the request on thread p
CreatePropostaInserir(p) ==
    /\ pedidos[p].pc = "verificado"
    /\ banco' = [banco EXCEPT !.propostas = Append(@,
                    [ licitacao_id |-> pedidos[p].licitacao_id,
                      fornecedor_id |-> pedidos[p].fornecedor_id,
                      valor |-> pedidos[p].valor, prazo_entrega |-> pedidos[p].prazo_entrega,
                      status |-> "enviada",
                      pontuacao_ia |-> None, is_vencedora |-> FALSE ])]
    /\ resposta' = Resposta("create_proposta", 200, "", pedidos[p].licitacao_id, "")
    /\ pedidos' = [pedidos EXCEPT ![p] = PedidoLivre]
    /\ UNCHANGED <<recomendador, disco, relogio, tentativas, ultimaOp, resultado, treino, leitor>>

NextPropostas ==
    \/ CreateLicitacaoCom({Some(100)})
    \/ CreateFornecedor
    \/ UpdateLicitacaoStatusPara({"publicada"})
    \/ \E p \in Pedidos : CreatePropostaVerificar(p)
    \/ \E p \in Pedidos : CreatePropostaInserir(p)

SpecPropostas == Init /\ [][NextPropostas]_vars

--------------------------------------------------------------------------
(* The lifecycle of a bid: every request that changes its status *)

\* delete_licitacao without the check of lines 207-211
DeleteLicitacaoSemGuarda ==
    \E id \in LicIds :
        LET licitacao == banco.licitacoes[id]
            codigo == IF ~licitacao.existe THEN 404 ELSE 200
        IN /\ resposta' = Resposta("delete_licitacao", codigo, "", id, "")
           /\ banco' = IF codigo # 200 THEN banco
                       ELSE [banco EXCEPT !.licitacoes[id].status = "cancelada"]
           /\ UNCHANGED varsIA

\* DELETE /licitacoes/{id}, licitacoes.py lines 179-219
DeleteLicitacao ==
    \E id \in LicIds :
        LET licitacao == banco.licitacoes[id]
            codigo == IF ~licitacao.existe THEN 404
                      ELSE IF licitacao.status \in {"concluida", "homologada"} THEN 400
                      ELSE 200
        IN /\ resposta' = Resposta("delete_licitacao", codigo, "", id, "")
           /\ banco' = IF codigo # 200 THEN banco
                       ELSE [banco EXCEPT !.licitacoes[id].status = "cancelada"]
           /\ UNCHANGED varsIA

\* move_licitacao without the check of lines 131-135
MoveLicitacaoSemValidacao ==
    \E id \in LicIds, novo_status \in StatusLicitacao :
        LET licitacao == banco.licitacoes[id]
            codigo == IF ~licitacao.existe THEN 404 ELSE 200
        IN /\ resposta' = Resposta("move_licitacao", codigo, "", id, novo_status)
           /\ banco' = IF codigo # 200 THEN banco
                       ELSE [banco EXCEPT !.licitacoes[id].status = novo_status]
           /\ UNCHANGED varsIA

\* PUT /licitacoes/{id}/move, kanban_integration.py lines 100-161
MoveLicitacao ==
    \E id \in LicIds, novo_status \in StatusLicitacao :
        LET licitacao == banco.licitacoes[id]
            codigo == IF ~licitacao.existe THEN 404
                      ELSE IF novo_status \notin VALID_TRANSITIONS[licitacao.status] THEN 400
                      ELSE 200
        IN /\ resposta' = Resposta("move_licitacao", codigo, "", id, novo_status)
           /\ banco' = IF codigo # 200 THEN banco
                       ELSE [banco EXCEPT !.licitacoes[id] =
                               [licitacao EXCEPT
                                  !.status = novo_status,
                                  !.data_publicacao =
                                      IF novo_status = "publicada" /\ IsNone(licitacao.data_publicacao)
                                      THEN Some(relogio) ELSE @,
                                  !.data_encerramento =
                                      IF novo_status = "concluida" /\ IsNone(licitacao.data_encerramento)
                                      THEN Some(relogio) ELSE @]]
           /\ UNCHANGED varsIA

\* proposal ids a request can name: the rows of the table and one id of no row
PropostaIds == 1..(Cardinality(LicIds) * Cardinality(FornIds) + 1)

\* PUT /propostas/{id}/vencedora, propostas.py lines 278-329
SetPropostaVencedora ==
    \E proposta_id \in PropostaIds :
        IF proposta_id > Len(banco.propostas)
        THEN /\ resposta' = Resposta("set_proposta_vencedora", 404, "", 0, "")
             /\ UNCHANGED banco
             /\ UNCHANGED varsIA
        ELSE LET proposta == banco.propostas[proposta_id]
                 licitacao == banco.licitacoes[proposta.licitacao_id]
             IN /\ IF licitacao.status # "em_analise"
                   THEN /\ resposta' = Resposta("set_proposta_vencedora", 400, "",
                                                proposta.licitacao_id, "")
                        /\ UNCHANGED banco
                   ELSE /\ resposta' = Resposta("set_proposta_vencedora", 200, "",
                                                proposta.licitacao_id, "")
                        /\ banco' = [banco EXCEPT
                              !.propostas = [i \in 1..Len(@) |->
                                  IF i = proposta_id
                                  THEN [@[i] EXCEPT !.is_vencedora = TRUE, !.status = "vencedora"]
                                  ELSE IF @[i].licitacao_id = proposta.licitacao_id
                                       THEN [@[i] EXCEPT !.is_vencedora = FALSE]
                                       ELSE @[i]],
                              !.licitacoes[proposta.licitacao_id].status = "adjudicada"]
                /\ UNCHANGED varsIA

\* a bid of one estimated value and proposals of one value and one delivery time
CriarLicitacao == CreateLicitacaoCom({Some(100)})
EnviarProposta == CreatePropostaCom({0}, {3})

NextCiclo ==
    \/ CriarLicitacao
    \/ CreateFornecedor
    \/ UpdateLicitacaoStatus
    \/ MoveLicitacao
    \/ DeleteLicitacao
    \/ EnviarProposta
    \/ SetPropostaVencedora

SpecCiclo == Init /\ [][NextCiclo]_vars

--------------------------------------------------------------------------
(* preprocessar_texto on texts, a text being a sequence of characters *)

\* one character of each class the regular expressions tell apart: an
\* upper-case letter, a lower-case letter, a digit, the underscore, a
\* punctuation mark, the space and another whitespace character
Maiusculas == {"A"}
Letras == {"a"}
Digitos == {"1"}
Sublinhado == {"_"}
Especiais == {"!"}
Brancos == {" ", "\t"}
Caracteres == Maiusculas \cup Letras \cup Digitos \cup Sublinhado \cup Especiais \cup Brancos

RECURSIVE TextosAte(_)
TextosAte(n) ==
    IF n = 0 THEN {<<>>}
    ELSE LET menores == TextosAte(n - 1)
         IN menores \cup {Append(t, c) : t \in menores, c \in Caracteres}

\* line 67: texto.lower()
Lower(texto) == [i \in 1..Len(texto) |-> IF texto[i] \in Maiusculas THEN "a" ELSE texto[i]]

\* line 70: re.sub(r'[^\w\s]', ' ', texto); \w is a letter, a digit or the underscore
SubEspeciais(texto) ==
    [i \in 1..Len(texto) |->
        IF texto[i] \in Maiusculas \cup Letras \cup Digitos \cup Sublinhado \cup Brancos
        THEN texto[i] ELSE " "]

\* re.sub(classe+, ' ', texto): every maximal run of the class becomes one space
RECURSIVE SubSequencias(_, _, _)
SubSequencias(texto, classe, i) ==
    IF i > Len(texto) THEN <<>>
    ELSE (IF texto[i] \notin classe THEN <<texto[i]>>
          ELSE IF i > 1 /\ texto[i - 1] \in classe THEN <<>> ELSE <<" ">>)
         \o SubSequencias(texto, classe, i + 1)

\* str.strip()
RECURSIVE Strip(_)
Strip(texto) ==
    IF texto = <<>> THEN <<>>
    ELSE IF Head(texto) \in Brancos THEN Strip(Tail(texto))
    ELSE IF texto[Len(texto)] \in Brancos THEN Strip(SubSeq(texto, 1, Len(texto) - 1))
    ELSE texto

\* preprocessar_texto with the digits removed after the whitespace is collapsed
PreprocessarTextoDigitosPorUltimo(texto) ==
    IF IsNone(texto) \/ Val(texto) = <<>> THEN <<>>
    ELSE SubSequencias(
            Strip(SubSequencias(SubEspeciais(Lower(Val(texto))), Brancos, 1)),
            Digitos, 1)

\* preprocessar_texto, recomendador.py lines 53-78
PreprocessarTexto(texto) ==
    IF IsNone(texto) \/ Val(texto) = <<>> THEN <<>>
    ELSE Strip(SubSequencias(
                 SubSequencias(SubEspeciais(Lower(Val(texto))), Digitos, 1),
                 Brancos, 1))

\* the text to preprocess: missing, empty, or any text up to MaxTexto characters
InitTexto ==
    /\ InitSemResposta
    /\ \E texto \in {None} \cup {Some(t) : t \in TextosAte(MaxTexto)} :
            resposta = [op |-> "texto", texto |-> texto, resultado |-> <<>>, de_novo |-> <<>>]

\* a call of preprocessar_texto, and a second call on its result
ChamarPreprocessarTexto ==
    /\ resposta.op = "texto"
    /\ resposta' = [ resposta EXCEPT
                        !.op = "preprocessar_texto",
                        !.resultado = PreprocessarTexto(resposta.texto),
                        !.de_novo = PreprocessarTexto(Some(PreprocessarTexto(resposta.texto))) ]
    /\ UNCHANGED <<banco, pedidos, recomendador, disco, relogio, tentativas, ultimaOp, resultado,
                   treino, leitor>>

NextTexto == ChamarPreprocessarTexto

SpecTexto == InitTexto /\ [][NextTexto]_vars

--------------------------------------------------------------------------
(* The scoring of one proposal, over ranges of its inputs *)

\* estimated values of a bid: null, negative, zero and positive
EstimadosFaixa == {None} \cup {Some(e) : e \in (0 - 1)..MaxValor}
\* averages of ratings on the 0-5 scale
MediasFaixa == {Frac(0, 1), Frac(5, 2), Frac(5, 1)}

\* lines 209-228 of calculate_supplier_scores applied to one proposal
SemFatores ==
    [ ok |-> FALSE, erro |-> "", preco_score |-> Zero, prazo_score |-> Zero,
      avaliacao_score |-> Zero, pontuacao |-> Zero ]

\* the proposal to score, the estimated value of its bid and the rating of its supplier
InitFatores ==
    /\ InitSemResposta
    /\ \E valor \in 0..(MaxValor + 1), prazo_entrega \in 0..MaxPrazo,
          valor_estimado \in EstimadosFaixa, avaliacao_media \in MediasFaixa :
            resposta = [ op |-> "proposta",
                         valor |-> valor, prazo_entrega |-> prazo_entrega,
                         valor_estimado |-> valor_estimado, avaliacao_media |-> avaliacao_media,
                         fatores |-> SemFatores ]

ChamarPontuarProposta ==
    /\ resposta.op = "proposta"
    /\ resposta' = [ resposta EXCEPT
                        !.op = "pontuar_proposta",
                        !.fatores = PontuarProposta(resposta.valor, resposta.prazo_entrega,
                                                    resposta.valor_estimado,
                                                    resposta.avaliacao_media) ]
    /\ UNCHANGED <<banco, pedidos, recomendador, disco, relogio, tentativas, ultimaOp, resultado,
                   treino, leitor>>

NextFatores == ChamarPontuarProposta

SpecFatores == InitFatores /\ [][NextFatores]_vars

--------------------------------------------------------------------------
(* One treinar and one recomendar running on two threads.  The training runs*)
(* as a background task (recomendacoes.py, lines 43-66) while request       *)
(* threads call recomendar on the same instance; no lock is taken, so the   *)
(* threads interleave between the reads and writes of the instance's fields.*)

\* treinar, lines 101-121: the guard, the texts, the initialisation
TreinoIniciar ==
    \E fornecedores \in ListasTreino \ {<<>>}, disponivel \in BOOLEAN :
        /\ treino.pc = "parado"
        /\ relogio < MaxRelogio
        /\ recomendador' = TreinarInicializar(recomendador, disponivel)
        /\ tentativas' = IF recomendador.sentence_transformer = "None"
                         THEN tentativas + 1 ELSE tentativas
        /\ treino' = [treino EXCEPT !.pc = "embed", !.fornecedores = fornecedores]
        /\ relogio' = relogio + 1
        /\ UNCHANGED <<disco, ultimaOp, resultado, leitor, banco, pedidos, resposta>>

\* treinar, lines 124-130: encode and the assignment of its result, or the
\* fit of the vectorizer (which raises, or refits self.vectorizer in place)
TreinoEmbed ==
    /\ treino.pc = "embed"
    /\ LET textos == TextosDe(treino.fornecedores)
       IN IF recomendador.sentence_transformer # "None"
          THEN /\ recomendador' = TreinarVetores(recomendador, textos)
               /\ treino' = [treino EXCEPT !.pc = "dados"]
          ELSE IF FitFalha(textos)
          THEN /\ recomendador' = recomendador
               /\ treino' = Parado
          ELSE /\ recomendador' = TreinarAjustar(recomendador, textos)
               /\ treino' = [treino EXCEPT !.pc = "vetores"]
    /\ UNCHANGED <<disco, relogio, tentativas, ultimaOp, resultado, leitor, banco, pedidos, resposta>>

\* treinar, line 130: the assignment of the fitted matrix
TreinoVetores ==
    /\ treino.pc = "vetores"
    /\ recomendador' = TreinarVetores(recomendador, TextosDe(treino.fornecedores))
    /\ treino' = [treino EXCEPT !.pc = "dados"]
    /\ UNCHANGED <<disco, relogio, tentativas, ultimaOp, resultado, leitor, banco, pedidos, resposta>>

\* treinar, line 133
TreinoDados ==
    /\ treino.pc = "dados"
    /\ recomendador' = TreinarDados(recomendador, treino.fornecedores)
    /\ treino' = [treino EXCEPT !.pc = "timestamp"]
    /\ UNCHANGED <<disco, relogio, tentativas, ultimaOp, resultado, leitor, banco, pedidos, resposta>>

\* treinar, line 134
TreinoTimestamp ==
    /\ treino.pc = "timestamp"
    /\ recomendador' = TreinarTimestamp(recomendador, relogio)
    /\ treino' = Parado
    /\ UNCHANGED <<disco, relogio, tentativas, ultimaOp, resultado, leitor, banco, pedidos, resposta>>

\* recomendar, lines 149-162: the guard and the text of the bid
LeitorIniciar ==
    \E licitacao \in Licitacoes, top_n \in TopNs :
        /\ leitor.pc \in {"parado", "fim"}
        /\ IF IsNone(recomendador.fornecedores_vetores) \/ IsNone(recomendador.fornecedores_dados)
           THEN leitor' = Parado
           ELSE leitor' = [Parado EXCEPT !.pc = "vetorizar",
                                         !.licitacao = licitacao.id, !.top_n = top_n]
        /\ resultado' = Retorno(<<>>)
        /\ ultimaOp' = Op("recomendar", 0, licitacao.id, top_n, FALSE)
        /\ UNCHANGED <<recomendador, disco, relogio, tentativas, treino, banco, pedidos, resposta>>

LicitacaoDe(id) == CHOOSE l \in Licitacoes : l.id = id

\* recomendar, lines 165-166 / 171: reads self.sentence_transformer and
\* self.vectorizer and embeds the bid's text
LeitorVetorizar ==
    /\ leitor.pc = "vetorizar"
    /\ \E v \in {Vetorizar(recomendador.sentence_transformer, recomendador.vectorizer,
                           LicitacaoDe(leitor.licitacao).termos)} :
          IF v.ok
          THEN /\ leitor' = [leitor EXCEPT
                                !.pc = "similaridade", !.vetor = v.vetor,
                                !.lido.sentence_transformer = recomendador.sentence_transformer,
                                !.lido.vectorizer = recomendador.vectorizer]
               /\ UNCHANGED <<resultado, ultimaOp>>
          ELSE /\ leitor' = [leitor EXCEPT !.pc = "fim"]
               /\ resultado' = Excecao(v.erro)
               /\ ultimaOp' = Op("recomendar", 0, leitor.licitacao, leitor.top_n, TRUE)
    /\ UNCHANGED <<recomendador, disco, relogio, tentativas, treino, banco, pedidos, resposta>>

\* recomendar, lines 168 / 173: reads self.fornecedores_vetores
LeitorSimilaridade ==
    /\ leitor.pc = "similaridade"
    /\ \E s \in {Similaridades(leitor.vetor, Val(recomendador.fornecedores_vetores))} :
          IF s.ok
          THEN /\ leitor' = [leitor EXCEPT
                                !.pc = "montar", !.sims = s.sims,
                                !.lido.fornecedores_vetores = recomendador.fornecedores_vetores]
               /\ UNCHANGED <<resultado, ultimaOp>>
          ELSE /\ leitor' = [leitor EXCEPT
                                !.pc = "fim",
                                !.lido.fornecedores_vetores = recomendador.fornecedores_vetores]
               /\ resultado' = Excecao(s.erro)
               /\ ultimaOp' = Op("recomendar", 0, leitor.licitacao, leitor.top_n, TRUE)
    /\ UNCHANGED <<recomendador, disco, relogio, tentativas, treino, banco, pedidos, resposta>>

\* recomendar, lines 176-190: reads self.fornecedores_dados
LeitorMontar ==
    /\ leitor.pc = "montar"
    /\ leitor' = [leitor EXCEPT !.pc = "fim",
                                !.lido.fornecedores_dados = recomendador.fornecedores_dados]
    /\ resultado' = Retorno(Montar(IndicesTop(leitor.sims, leitor.top_n), 1, leitor.sims,
                                   Val(recomendador.fornecedores_dados)))
    /\ ultimaOp' = Op("recomendar", 0, leitor.licitacao, leitor.top_n, FALSE)
    /\ UNCHANGED <<recomendador, disco, relogio, tentativas, treino, banco, pedidos, resposta>>

NextConc ==
    \/ TreinoIniciar
    \/ TreinoEmbed
    \/ TreinoVetores
    \/ TreinoDados
    \/ TreinoTimestamp
    \/ LeitorIniciar
    \/ LeitorVetorizar
    \/ LeitorSimilaridade
    \/ LeitorMontar

SpecConc == Init /\ [][NextConc]_vars

--------------------------------------------------------------------------
(* The recommendation endpoint on the instance of its module *)

\* GET /recomendacoes/recomendar/{licitacao_id}, recomendacoes.py lines 68-142.
\* carregar_modelo catches its own exceptions (recomendador.py line 235), so the
\* except of lines 96-100 is never entered; an exception of recomendar is
\* answered 500.  The list answered holds the entries whose supplier is in the
\* database.
RecomendarFornecedores ==
    \E licitacao_id \in LicIds, top_n \in TopNs :
        LET sem_dados == \/ IsNone(recomendador.fornecedores_dados)
                         \/ Val(recomendador.fornecedores_dados) = <<>>
            r == IF sem_dados THEN CarregarModelo(recomendador, disco).rec ELSE recomendador
            rec == Recomendar(r, LicitacaoDe(licitacao_id), top_n)
            no_banco == SelectSeq(rec.valor,
                           LAMBDA e : /\ e.fornecedor.id \in FornIds
                                      /\ banco.fornecedores[e.fornecedor.id].existe)
        IN /\ recomendador' = r
           /\ IF ~banco.licitacoes[licitacao_id].existe
              THEN /\ resposta' = Resposta("recomendar_fornecedores", 404, "", licitacao_id, "")
                   /\ resultado' = Retorno(<<>>)
              ELSE IF rec.tipo = "excecao"
              THEN /\ resposta' = Resposta("recomendar_fornecedores", 500, "", licitacao_id, "")
                   /\ resultado' = rec
              ELSE /\ resposta' = Resposta("recomendar_fornecedores", 200, "", licitacao_id, "")
                   /\ resultado' = Retorno(no_banco)
           /\ ultimaOp' = Op("recomendar_fornecedores", 0, licitacao_id, top_n,
                             rec.tipo = "excecao")
           /\ UNCHANGED <<banco, pedidos, disco, relogio, tentativas, treino, leitor>>

\* training and saving in the background, restarts, and requests for recommendations
NextRecomendacao ==
    \/ ChamarTreinar
    \/ ChamarSalvarModelo
    \/ Reiniciar
    \/ CriarLicitacao
    \/ CreateFornecedor
    \/ RecomendarFornecedores

SpecRecomendacao == Init /\ [][NextRecomendacao]_vars

--------------------------------------------------------------------------
(* Properties *)

\* the guard of recomendar and salvar_modelo, lines 149 and 199
NaoTreinado(r) == IsNone(r.fornecedores_vetores) \/ IsNone(r.fornecedores_dados)

\* the strategy recomendar embeds the query with, line 165
EstrategiaConsulta(r) == IF r.sentence_transformer # "None" THEN "semantica" ELSE "tfidf"

\* the instance holds the corpus of one training run: the stored vectors are
\* the embedding of the stored records under the strategy, and the fitted
\* vectorizer, the instance uses
EstadoDeTreino(r) ==
    /\ ~NaoTreinado(r)
    /\ LET textos == TextosDe(Val(r.fornecedores_dados))
       IN IF r.sentence_transformer # "None"
          THEN Val(r.fornecedores_vetores) = VetoresSemanticos(textos)
          ELSE /\ r.vectorizer = Ajustado(textos)
               /\ Val(r.fornecedores_vetores) = VetoresTfidf(textos)

\* C1: recomendar on an instance that holds no trained corpus fails with a
\* "model not trained" condition visible to the caller, and never returns an
\* empty list as if the call had succeeded.
C1_NaoTreinadoFalha ==
    (ultimaOp.op = "recomendar" /\ NaoTreinado(recomendador))
        => resultado.tipo = "excecao"

\* C2: every recomendar that runs while a treinar is in progress computes its
\* result from one corpus: the vectors, the records and the fitted vectorizer
\* it read belong to the same training run, and it returns a list.
C2_LeituraDeUmTreino ==
    leitor.pc = "fim" => (resultado.tipo = "retorno" /\ EstadoDeTreino(leitor.lido))

\* C3: treinar with an empty list changes nothing: vectors, records,
\* vectorizer, sentence transformer and timestamp are as before the call, and
\* no initialisation of the sentence transformer is attempted.
C3_TreinoVazioNaoMuda ==
    [][ (ultimaOp'.op = "treinar" /\ ultimaOp'.n = 0)
            => (recomendador' = recomendador /\ tentativas' = tentativas) ]_vars

\* C3's case: an empty list handed to an instance that holds a trained corpus
C3_Testemunha ==
    /\ ultimaOp.op = "treinar"
    /\ ultimaOp.n = 0
    /\ EstadoDeTreino(recomendador)

\* C4: carregar_modelo of a location that is absent, unreadable or not a saved
\* corpus fails with a "load failed" condition visible to the caller.
C4_CargaFalhaVisivel ==
    (ultimaOp.op = "carregar_modelo" /\ ultimaOp.falhou) => resultado.tipo = "excecao"

\* C5: whenever carregar_modelo fails, every field of the instance is as it
\* was before the call.
C5_CargaFalhaPreserva ==
    [][ (ultimaOp'.op = "carregar_modelo" /\ ultimaOp'.falhou)
            => recomendador' = recomendador ]_vars

\* C6: after a trained instance has saved its model, a freshly constructed
\* instance that loads the file answers every recomendar(q, k) as the saving
\* instance does.
C6_SalvarCarregarReproduz ==
    (ultimaOp.op = "salvar_modelo" /\ ~ultimaOp.falhou)
        => \A q \in Licitacoes, k \in TopNs :
              Recomendar(CarregarModelo(Novo, disco).rec, q, k)
                  = Recomendar(recomendador, q, k)

\* C7: whenever the instance holds a corpus, the strategy recomendar embeds
\* the query with is the strategy that produced the stored vectors.
C7_MesmaEstrategia ==
    ~NaoTreinado(recomendador)
        => EstrategiaConsulta(recomendador) = Val(recomendador.fornecedores_vetores).estrategia

\* C8: the sentence transformer is initialised at most once per process: after
\* a failed attempt no later call attempts it again.
C8_UmaTentativa == tentativas <= 1

\* C9: on an instance that holds the corpus of a training with N >= 1
\* suppliers, recomendar(q, top_n = k) with k >= 1 returns exactly min(k, N)
\* entries.
C9_QuantidadeRetornada ==
    (ultimaOp.op = "recomendar" /\ ultimaOp.top_n >= 1 /\ ~NaoTreinado(recomendador))
        => /\ resultado.tipo = "retorno"
           /\ Len(resultado.valor)
                = Min(ultimaOp.top_n, Len(Val(recomendador.fornecedores_dados)))

\* the count holds on every instance whose fields are those one training left
QuantidadeAposTreino ==
    (ultimaOp.op = "recomendar" /\ ultimaOp.top_n >= 1 /\ EstadoDeTreino(recomendador))
        => /\ resultado.tipo = "retorno"
           /\ Len(resultado.valor)
                = Min(ultimaOp.top_n, Len(Val(recomendador.fornecedores_dados)))

\* C10: in every list recomendar returns, the i-th entry has rank i and
\* scores do not increase along the list (here for the calls that run while a
\* treinar is in progress).
C10_RankingOrdenado ==
    (leitor.pc = "fim" /\ resultado.tipo = "retorno")
        => LET lista == resultado.valor
           IN /\ \A i \in 1..Len(lista) : lista[i].ranking = i
              /\ \A i \in 1..(Len(lista) - 1) : lista[i].pontuacao >= lista[i + 1].pontuacao

\* the similarities recomendar computed for the query of the last call
SimsDaUltimaConsulta ==
    Similaridades(
        Vetorizar(recomendador.sentence_transformer, recomendador.vectorizer,
                  LicitacaoDe(ultimaOp.licitacao).termos).vetor,
        Val(recomendador.fornecedores_vetores)).sims

\* without a concurrent treinar and with the files the program itself wrote,
\* the list is ranked 1..n, ordered by score, and holds every candidate that
\* scores more than its last entry
RankingSequencial ==
    (ultimaOp.op = "recomendar" /\ resultado.tipo = "retorno" /\ Len(resultado.valor) > 0)
        => LET lista == resultado.valor
               menor == lista[Len(lista)].pontuacao
               sims  == SimsDaUltimaConsulta
           IN /\ \A i \in 1..Len(lista) : lista[i].ranking = i
              /\ \A i \in 1..(Len(lista) - 1) : lista[i].pontuacao >= lista[i + 1].pontuacao
              /\ \A i \in 1..Len(lista) :
                    \E j \in 1..Len(sims) :
                        /\ lista[i].pontuacao = sims[j]
                        /\ lista[i].fornecedor = Val(recomendador.fornecedores_dados)[j]
              /\ Cardinality({j \in 1..Len(sims) : sims[j] > menor})
                    = Cardinality({i \in 1..Len(lista) : lista[i].pontuacao > menor})

\* the top_n indices in descending order of similarity, equal similarities in
\* the order of the training input
IndicesEstaveis(sims, top_n) ==
    LET n == Len(sims)
        pos(i) == 1 + Cardinality({j \in 1..n :
                        sims[j] > sims[i] \/ (sims[j] = sims[i] /\ j < i)})
    IN [p \in 1..Min(top_n, n) |-> CHOOSE i \in 1..n : pos(i) = p]

\* C11: candidates of equal similarity are ordered by their position in the
\* training input: the list recomendar returns is the one a descending
\* selection that keeps input order among equals gives (lower index first, and
\* the lower index is the one kept when only one fits in top_n).
C11_EmpateOrdemOriginal ==
    (ultimaOp.op = "recomendar" /\ resultado.tipo = "retorno" /\ EstadoDeTreino(recomendador))
        => resultado.valor
             = Montar(IndicesEstaveis(SimsDaUltimaConsulta, ultimaOp.top_n), 1,
                      SimsDaUltimaConsulta, Val(recomendador.fornecedores_dados))

\* as many records as vectors, and vector i is the embedding of the text of
\* record i under the strategy (and fitted vocabulary) that made the vectors
Alinhado(r) ==
    LET v      == Val(r.fornecedores_vetores)
        dados  == Val(r.fornecedores_dados)
        textos == TextosDe(dados)
    IN /\ Len(v.linhas) = Len(dados)
       /\ \A i \in 1..Len(dados) :
             v.linhas[i] = IF v.estrategia = "semantica"
                           THEN Encode(textos[i])
                           ELSE Transform(r.vectorizer.vocab, textos[i])

\* C12: after every completed treinar, and after every carregar_modelo of a
\* file salvar_modelo wrote, there are as many supplier records as vectors and
\* the record at index i is the one whose text produced vector i.
C12_IndicesAlinhados ==
    (/\ ultimaOp.op \in {"treinar", "carregar_modelo"}
     /\ ~ultimaOp.falhou
     /\ ~NaoTreinado(recomendador))
        => Alinhado(recomendador)

\* C12's case: a freshly started instance has loaded a saved corpus of three
\* suppliers
C12_Testemunha ==
    /\ ultimaOp.op = "carregar_modelo"
    /\ ~ultimaOp.falhou
    /\ ~NaoTreinado(recomendador)
    /\ Len(Val(recomendador.fornecedores_dados)) = 3
    /\ recomendador.sentence_transformer = "None"

\* C13: avaliar_recomendacoes with lists of different lengths fails with an
\* exception the caller sees, and makes no recomendar call before it.
C13_TamanhosDiferentesFalha ==
    (ultimaOp.op = "avaliar_recomendacoes" /\ ultimaOp.n # ultimaOp.m)
        => (resultado.tipo = "excecao" /\ ultimaOp.chamadas = 0)

\* C14: scoring the proposals of a bid never fails: whatever the bid's
\* estimated value (zero, negative or null) and the delivery days of its
\* proposals, calculate_supplier_scores on an existing bid ends with status
\* "success" and every proposal of the bid that it scored has a score.
C14_PontuacaoNuncaFalha ==
    (/\ resposta.op = "calculate_supplier_scores"
     /\ banco.licitacoes[resposta.licitacao_id].existe)
        => /\ resposta.status = "success"
           /\ \A i \in 1..Len(banco.propostas) :
                 banco.propostas[i].licitacao_id = resposta.licitacao_id
                     => ~IsNone(banco.propostas[i].pontuacao_ia)

\* C15: for an estimated value E > 0 and a proposal value V >= 0 the price
\* factor is 100 - V / E * 100 clamped to [0, 100]: (100 E - 100 V) / E when
\* V < E, 0 when V = E and for every V > E, and 100 when V = 0.
C15_FatorPreco ==
    (/\ resposta.op = "pontuar_proposta"
     /\ ~IsNone(resposta.valor_estimado)
     /\ Val(resposta.valor_estimado) > 0)
        => LET E == Val(resposta.valor_estimado)
               V == resposta.valor
               f == resposta.fatores.preco_score
           IN /\ resposta.fatores.ok
              /\ (V < E  => f.n * E = (100 * E - 100 * V) * f.d)
              /\ (V >= E => f.n = 0)
              /\ (V = 0  => f = [n |-> 100, d |-> 1])

\* C15's case: a proposal above the estimated value, scored
C15_Testemunha ==
    /\ resposta.op = "pontuar_proposta"
    /\ ~IsNone(resposta.valor_estimado)
    /\ Val(resposta.valor_estimado) > 0
    /\ resposta.valor > Val(resposta.valor_estimado)
    /\ resposta.fatores.ok

\* a fraction lies in [0, 100]
EntreZeroECem(x) == x.d > 0 /\ x.n >= 0 /\ x.n <= 100 * x.d

C17_SoLetrasEEspacos ==
    resposta.op = "preprocessar_texto"
        => LET r == resposta.resultado
           IN /\ \A i \in 1..Len(r) : r[i] \in Letras \cup {" "}
              /\ \A i \in 1..(Len(r) - 1) : ~(r[i] = " " /\ r[i + 1] = " ")
              /\ (r # <<>> => r[1] # " " /\ r[Len(r)] # " ")
              /\ ((IsNone(resposta.texto) \/ Val(resposta.texto) = <<>>) => r = <<>>)

\* C18: preprocessar_texto is idempotent: applying it to its own result
\* gives that result again.
C18_Idempotente ==
    resposta.op = "preprocessar_texto" => resposta.de_novo = resposta.resultado

\* C18's case: a text that the first application changed into a text with a space inside
C18_Testemunha ==
    /\ resposta.op = "preprocessar_texto"
    /\ ~IsNone(resposta.texto)
    /\ resposta.resultado # Val(resposta.texto)
    /\ Len(resposta.resultado) = 3
    /\ resposta.resultado[2] = " "
    /\ resposta.de_novo = resposta.resultado

\* C19: every recommendation returned by recomendar carries a score between
\* 0 and 100 inclusive, under either strategy and for any query, the query
\* with no term included.
C19_PontuacaoEntreZeroECem ==
    (ultimaOp.op = "recomendar" /\ resultado.tipo = "retorno")
        => \A i \in 1..Len(resultado.valor) :
              /\ resultado.valor[i].pontuacao >= 0
              /\ resultado.valor[i].pontuacao <= 100

\* C20: update_licitacao_status changes the status of a bid only along a
\* valid lifecycle transition; a request for any other change of status,
\* such as em_analise back to rascunho, is answered 400 and leaves the
\* status of the bid as it was.
C20_SoTransicoesValidas ==
    [][ \A id \in LicIds :
          (/\ resposta'.op = "update_licitacao_status"
           /\ resposta'.licitacao_id = id
           /\ banco.licitacoes[id].existe)
              => LET antes == banco.licitacoes[id].status
                     depois == banco'.licitacoes[id].status
                 IN /\ depois # antes => depois \in VALID_TRANSITIONS[antes]
                    /\ (resposta'.alvo # antes /\ resposta'.alvo \notin VALID_TRANSITIONS[antes])
                          => (resposta'.codigo = 400 /\ depois = antes)
      ]_vars

\* C21: delete_licitacao never removes the bid: a bid that is neither
\* concluida nor homologada becomes cancelada, and for a concluida or
\* homologada bid the answer is 400 and nothing changes.
C21_DeleteCancela ==
    [][ \A id \in LicIds :
          (/\ resposta'.op = "delete_licitacao"
           /\ resposta'.licitacao_id = id
           /\ banco.licitacoes[id].existe)
              => /\ banco'.licitacoes[id].existe
                 /\ IF banco.licitacoes[id].status \in {"concluida", "homologada"}
                    THEN resposta'.codigo = 400 /\ banco' = banco
                    ELSE /\ resposta'.codigo = 200
                         /\ banco' = [banco EXCEPT !.licitacoes[id].status = "cancelada"]
      ]_vars

\* C21's two cases: a bid with a proposal that delete cancelled, and a
\* homologada bid that delete refused
C21_Testemunha ==
    /\ resposta.op = "delete_licitacao"
    /\ resposta.codigo = 200
    /\ banco.licitacoes[resposta.licitacao_id].existe
    /\ banco.licitacoes[resposta.licitacao_id].status = "cancelada"
    /\ Len(banco.propostas) > 0

\* the four fields of the trained corpus
Corpus(r) ==
    [ fornecedores_vetores |-> r.fornecedores_vetores,
      fornecedores_dados   |-> r.fornecedores_dados,
      vectorizer           |-> r.vectorizer,
      ultimo_treinamento   |-> r.ultimo_treinamento ]

\* C22: salvar_modelo followed by carregar_modelo restores every field of
\* the trained corpus: the vectors, the supplier records in their order, the
\* fitted vectorizer and the training timestamp of the loaded instance equal
\* those of the instance that saved.
C22_SalvarCarregarCampos ==
    /\ (ultimaOp.op = "salvar_modelo" /\ ~ultimaOp.falhou)
          => /\ ~CarregarModelo(Novo, disco).falhou
             /\ Corpus(CarregarModelo(Novo, disco).rec) = Corpus(recomendador)
    /\ (ultimaOp.op = "carregar_modelo" /\ ~ultimaOp.falhou)
          => Corpus(recomendador) = Corpus(disco)

\* C22's case: a corpus of a TF-IDF training with its timestamp, loaded from the file
C22_Testemunha ==
    /\ ultimaOp.op = "carregar_modelo"
    /\ ~ultimaOp.falhou
    /\ recomendador.vectorizer.ajustado
    /\ ~IsNone(recomendador.ultimo_treinamento)
    /\ ~IsNone(recomendador.fornecedores_dados)
    /\ Len(Val(recomendador.fornecedores_dados)) > 1

\* the sum over the test queries of one metric of the recommendations that
\* recomendar(query, top_n = 10) gives on the instance
RECURSIVE SomaMetrica(_, _, _, _)
SomaMetrica(metrica, licitacoes_teste, fornecedores_corretos, i) ==
    IF i > Len(licitacoes_teste) THEN Zero
    ELSE FracSoma(
            MetricasDe(Recomendar(recomendador, licitacoes_teste[i], 10).valor,
                       fornecedores_corretos[i])[metrica],
            SomaMetrica(metrica, licitacoes_teste, fornecedores_corretos, i + 1))

\* C23: for inputs of equal length avaliar_recomendacoes makes one
\* recomendar call with top_n = 10 per test query and returns the averages
\* over the queries of precision, recall and F1, a query with no
\* recommendation or no relevant id counting 0; it does not fail.
C23_MediasDasMetricas ==
    (ultimaOp.op = "avaliar_recomendacoes" /\ ultimaOp.n = ultimaOp.m)
        => LET testes == resposta.licitacoes_teste
               corretos == resposta.fornecedores_corretos
               media(metrica) == SomaMetrica(metrica, testes, corretos, 1)
           IN /\ resultado.tipo = "retorno"
              /\ ultimaOp.chamadas = Len(testes)
              /\ ultimaOp.top_n = 10
              /\ Len(testes) > 0 =>
                    /\ resultado.valor.precisao_media.n * Len(testes) * media("precisao").d
                          = media("precisao").n * resultado.valor.precisao_media.d
                    /\ resultado.valor.recall_medio.n * Len(testes) * media("recall").d
                          = media("recall").n * resultado.valor.recall_medio.d
                    /\ resultado.valor.f1_medio.n * Len(testes) * media("f1").d
                          = media("f1").n * resultado.valor.f1_medio.d

\* C24: cancelada and concluida are terminal: no request of
\* update_licitacao_status, move_licitacao, delete_licitacao or
\* set_proposta_vencedora changes the status of a bid that is cancelada or
\* concluida.
C24_StatusTerminais ==
    [][ \A id \in LicIds :
          (banco.licitacoes[id].existe /\ banco.licitacoes[id].status \in {"cancelada", "concluida"})
              => banco'.licitacoes[id].status = banco.licitacoes[id].status
      ]_vars

\* C24's case: a request to reopen a concluida bid that has a winner was refused
C24_Testemunha ==
    \E id \in LicIds :
        /\ banco.licitacoes[id].status = "concluida"
        /\ resposta.op \in {"update_licitacao_status", "move_licitacao", "delete_licitacao",
                            "set_proposta_vencedora"}
        /\ resposta.licitacao_id = id
        /\ resposta.codigo # 200
        /\ \E i \in 1..Len(banco.propostas) : banco.propostas[i].is_vencedora

\* C25: a homologada bid never becomes cancelada, whichever of
\* update_licitacao_status, move_licitacao and delete_licitacao is asked.
C25_HomologadaNaoCancela ==
    [][ \A id \in LicIds :
          (banco.licitacoes[id].existe /\ banco.licitacoes[id].status = "homologada")
              => banco'.licitacoes[id].status # "cancelada"
      ]_vars

\* C26: move_licitacao changes the status of a bid only along an edge of
\* VALID_TRANSITIONS; for any other target it answers 400 and leaves the
\* status, the publication date and the closing date of the bid unchanged.
C26_MoveSoPorArestas ==
    [][ \A id \in LicIds :
          (/\ resposta'.op = "move_licitacao"
           /\ resposta'.licitacao_id = id
           /\ banco.licitacoes[id].existe)
              => LET antes == banco.licitacoes[id]
                     depois == banco'.licitacoes[id]
                 IN IF resposta'.alvo \in VALID_TRANSITIONS[antes.status]
                    THEN depois.status = resposta'.alvo /\ resposta'.codigo = 200
                    ELSE /\ resposta'.codigo = 400
                         /\ depois.status = antes.status
                         /\ depois.data_publicacao = antes.data_publicacao
                         /\ depois.data_encerramento = antes.data_encerramento
      ]_vars

\* C26's case: a move of an em_analise bid back to rascunho was refused
C26_Testemunha ==
    /\ resposta.op = "move_licitacao"
    /\ resposta.codigo = 400
    /\ resposta.alvo = "rascunho"
    /\ banco.licitacoes[resposta.licitacao_id].existe
    /\ banco.licitacoes[resposta.licitacao_id].status = "em_analise"

\* C27: when the instance in memory is untrained and no saved model can be
\* loaded, the recommendation endpoint answers an existing bid with HTTP 400
\* and never with 200 and an empty list of recommendations.
C27_NaoTreinadoResponde400 ==
    [][ (/\ resposta'.op = "recomendar_fornecedores"
         /\ ultimaOp'.op = "recomendar_fornecedores"
         /\ banco.licitacoes[resposta'.licitacao_id].existe
         /\ NaoTreinado(recomendador)
         /\ CarregarModelo(recomendador, disco).falhou)
            => /\ resposta'.codigo = 400
               /\ ~(resposta'.codigo = 200 /\ resultado'.valor = <<>>)
      ]_vars

\* C28: at most one proposal exists for any pair of bid and supplier,
\* whatever the order and the interleaving of the create_proposta requests.
C28_UmaPropostaPorPar ==
    \A i, j \in 1..Len(banco.propostas) :
        (/\ banco.propostas[i].licitacao_id = banco.propostas[j].licitacao_id
         /\ banco.propostas[i].fornecedor_id = banco.propostas[j].fornecedor_id)
            => i = j

\* C29: after any sequence of set_proposta_vencedora and status changes,
\* each bid has at most one proposal marked as winner: at most one with
\* is_vencedora true, at most one with status "vencedora", and they are the
\* same proposal.
C29_UmaVencedora ==
    \A id \in LicIds :
        LET da_licitacao == {i \in 1..Len(banco.propostas) : banco.propostas[i].licitacao_id = id}
            com_marca  == {i \in da_licitacao : banco.propostas[i].is_vencedora}
            com_status == {i \in da_licitacao : banco.propostas[i].status = "vencedora"}
        IN /\ Cardinality(com_marca) <= 1
           /\ Cardinality(com_status) <= 1
           /\ com_marca = com_status

\* C30: calculate_supplier_scores is all-or-nothing per bid: when the task
\* ends with status "error" (bid not found, or a failure while scoring any
\* one proposal) no stored pontuacao_ia has changed, and when it ends with
\* status "success" every proposal of the bid whose supplier exists carries
\* the score recomputed from the current data.
C30_TudoOuNada ==
    [][ \A id \in LicIds :
          (/\ resposta'.op = "calculate_supplier_scores"
           /\ resposta'.licitacao_id = id)
              => /\ resposta'.status \in {"error", "success"}
                 /\ Len(banco'.propostas) = Len(banco.propostas)
                 /\ resposta'.status = "error"
                       => \A i \in 1..Len(banco.propostas) :
                              banco'.propostas[i].pontuacao_ia = banco.propostas[i].pontuacao_ia
                 /\ resposta'.status = "success"
                       => /\ banco.licitacoes[id].existe
                          /\ \A i \in 1..Len(banco.propostas) :
                               LET p == banco.propostas[i]
                               IN (/\ p.licitacao_id = id
                                   /\ banco.fornecedores[p.fornecedor_id].existe)
                                     => banco'.propostas[i].pontuacao_ia =
                                          Some(PontuarProposta(p.valor, p.prazo_entrega,
                                                 banco.licitacoes[id].valor_estimado,
                                                 banco.fornecedores[p.fornecedor_id].avaliacao_media
                                               ).pontuacao)
      ]_vars

\* C30's case: the task failed at a later proposal after scoring an earlier
\* one in its session, and the earlier proposal still holds its old score,
\* which is not the score the failed run had computed for it
C30_Testemunha ==
    /\ resposta.op = "calculate_supplier_scores"
    /\ resposta.status = "error"
    /\ banco.licitacoes[resposta.licitacao_id].existe
    /\ ~IsNone(banco.licitacoes[resposta.licitacao_id].valor_estimado)
    /\ resposta.falha_em \in 2..Len(banco.propostas)
    /\ \E j \in 1..(resposta.falha_em - 1) :
          LET p == banco.propostas[j]
          IN /\ p.licitacao_id = resposta.licitacao_id
             /\ ~IsNone(p.pontuacao_ia)
             /\ p.pontuacao_ia #
                  Some(PontuarProposta(p.valor, p.prazo_entrega,
                         banco.licitacoes[resposta.licitacao_id].valor_estimado,
                         banco.fornecedores[p.fornecedor_id].avaliacao_media).pontuacao)

====
